---- MODULE Spec2Model ----
(***************************************************************************)
(* Model of the MMLU-Pro evaluation harness of kcloud-mlperf:              *)
(*   src/mmlu_pro_benchmark.py   (get_domain, preprocess_dataset,          *)
(*                                format_prompt, extract_answer,           *)
(*                                evaluate_mmlu_pro)                       *)
(*   src/benchmarks/mmlu_pro_cot.py (select_by_category, extract_answer)   *)
(*                                                                         *)
(* Python str values are TLA+ strings; Python lists are sequences; dicts   *)
(* are functions whose DOMAIN is the key set (a missing key is a missing   *)
(* field).  Python indices are 0-based, TLA+ sequences 1-based: the        *)
(* translation adds 1 at every subscript.                                  *)
(***************************************************************************)
EXTENDS Integers, Sequences, FiniteSets, TLC

(***************************************************************************)
(* Bounds of the model.                                                    *)
(***************************************************************************)
MaxTokens == 3      \* pieces concatenated into a model output text
MaxWords == 2       \* words concatenated into a category name
MaxRecords == 2     \* raw records in a dataset given to preprocess_dataset
MaxTest == 3        \* records in the test split of a run
MaxFewShot == 2     \* largest num_few_shot of a run

(***************************************************************************)
(* Python's None.                                                          *)
(***************************************************************************)
None == "<None>"

(***************************************************************************)
(* Characters and strings (ASCII part of Python's str).                    *)
(***************************************************************************)
UPPERCASE == "ABCDEFGHIJKLMNOPQRSTUVWXYZ"
LOWERCASE == "abcdefghijklmnopqrstuvwxyz"
DIGITS == "0123456789"

CharAt(s, i) == IF 1 <= i /\ i <= Len(s) THEN SubSeq(s, i, i) ELSE ""

Slice(s, i, j) ==
    LET lo == IF i < 1 THEN 1 ELSE i
        hi == IF j > Len(s) THEN Len(s) ELSE j
    IN  IF lo > hi THEN "" ELSE SubSeq(s, lo, hi)

CharsOf(s) == {SubSeq(s, i, i) : i \in 1..Len(s)}

UpperChars == CharsOf(UPPERCASE)
LowerChars == CharsOf(LOWERCASE)
DigitChars == CharsOf(DIGITS)

LowerOf == [c \in UpperChars |->
              LET i == CHOOSE n \in 1..26 : SubSeq(UPPERCASE, n, n) = c
              IN  SubSeq(LOWERCASE, i, i)]
UpperOf == [c \in LowerChars |->
              LET i == CHOOSE n \in 1..26 : SubSeq(LOWERCASE, n, n) = c
              IN  SubSeq(UPPERCASE, i, i)]

LowerChar(c) == IF c \in UpperChars THEN LowerOf[c] ELSE c
UpperChar(c) == IF c \in LowerChars THEN UpperOf[c] ELSE c

RECURSIVE lower(_)
lower(s) == IF s = "" THEN "" ELSE LowerChar(Head(s)) \o lower(Tail(s))

RECURSIVE upper(_)
upper(s) == IF s = "" THEN "" ELSE UpperChar(Head(s)) \o upper(Tail(s))

\* Python's `sub in s` for strings.
StrIn(sub, s) ==
    \E p \in 1..(Len(s) - Len(sub) + 1) : SubSeq(s, p, p + Len(sub) - 1) = sub

\* Python's s.startswith(sub, p-1)
StartsAt(s, p, sub) == Slice(s, p, p + Len(sub) - 1) = sub

RECURSIVE replace(_, _, _)
replace(s, old, new) ==
    IF s = "" THEN ""
    ELSE IF StartsAt(s, 1, old)
         THEN new \o replace(Slice(s, Len(old) + 1, Len(s)), old, new)
         ELSE Head(s) \o replace(Tail(s), old, new)

(***************************************************************************)
(* CHOICES and DOMAIN_MAPPING.  A Python dict iterates in insertion order, *)
(* so DOMAIN_MAPPING.items() is this sequence of (key, domain) pairs.      *)
(***************************************************************************)
CHOICES == <<"A", "B", "C", "D", "E", "F", "G", "H", "I", "J">>

DOMAIN_MAPPING == <<
    <<"math", "STEM">>,
    <<"physics", "STEM">>,
    <<"chemistry", "STEM">>,
    <<"biology", "STEM">>,
    <<"computer science", "STEM">>,
    <<"engineering", "STEM">>,
    <<"statistics", "STEM">>,
    <<"economics", "Social Sciences">>,
    <<"psychology", "Social Sciences">>,
    <<"business", "Social Sciences">>,
    <<"law", "Humanities">>,
    <<"philosophy", "Humanities">>,
    <<"history", "Humanities">>,
    <<"health", "Other">>,
    <<"other", "Other">> >>

\* The for loop of get_domain from rule i on: return at the first key that
\* is a substring of cat_lower, "Other" after the last rule.
RECURSIVE get_domain_from(_, _)
get_domain_from(cat_lower, i) ==
    IF i > Len(DOMAIN_MAPPING) THEN "Other"
    ELSE IF StrIn(DOMAIN_MAPPING[i][1], cat_lower) THEN DOMAIN_MAPPING[i][2]
    ELSE get_domain_from(cat_lower, i + 1)

\* Mutant of get_domain: the last matching rule decides.
get_domain_last_match(category) ==
    LET matching == {i \in 1..Len(DOMAIN_MAPPING) :
                        StrIn(DOMAIN_MAPPING[i][1], lower(category))}
    IN  IF matching = {} THEN "Other"
        ELSE DOMAIN_MAPPING[CHOOSE i \in matching :
                               \A j \in matching : j <= i][2]

get_domain(category) == get_domain_from(lower(category), 1)

(***************************************************************************)
(* Regular expressions of extract_answer, on the ASCII alphabet.           *)
(***************************************************************************)
\* [A-J]
IsAJ(c) == c \in {"A", "B", "C", "D", "E", "F", "G", "H", "I", "J"}
\* [A-J] under re.IGNORECASE
IsAJIgnoreCase(c) == c # "" /\ IsAJ(UpperChar(c))
\* \w
IsWordChar(c) == c \in UpperChars \cup LowerChars \cup DigitChars \cup {"_"}
\* \s
IsSpace(c) == c \in {" ", "\t", "\n", "\r", "\f"}

\* \b between text[i] and text[i+1] (i = 0 is the start, i = Len the end).
WordBoundary(text, i) ==
    IsWordChar(CharAt(text, i)) # IsWordChar(CharAt(text, i + 1))

\* pattern1 = r"answer is \(?([A-J])\)?" with re.IGNORECASE, tried at p.
\* The result is the position of group 1, 0 when there is no match at p.
Pattern1At(text, p) ==
    IF lower(Slice(text, p, p + 9)) # "answer is " \/ p + 9 > Len(text) THEN 0
    ELSE IF CharAt(text, p + 10) = "(" /\ IsAJIgnoreCase(CharAt(text, p + 11))
         THEN p + 11
    ELSE IF IsAJIgnoreCase(CharAt(text, p + 10)) THEN p + 10
    ELSE 0

\* \s* from position q: the first position that is not whitespace.
RECURSIVE SkipSpaces(_, _)
SkipSpaces(text, q) ==
    IF IsSpace(CharAt(text, q)) THEN SkipSpaces(text, q + 1) ELSE q

\* pattern2 = r'[aA]nswer:\s*([A-J])', case-sensitive, tried at p.
Pattern2At(text, p) ==
    IF ~ (CharAt(text, p) \in {"a", "A"} /\ StartsAt(text, p + 1, "nswer:"))
    THEN 0
    ELSE LET q == SkipSpaces(text, p + 7)
         IN  IF IsAJ(CharAt(text, q)) THEN q ELSE 0

\* \b[A-J]\b at position q
StandaloneAt(text, q) ==
    /\ IsAJ(CharAt(text, q))
    /\ WordBoundary(text, q - 1)
    /\ WordBoundary(text, q)

\* Mutant of Pattern3At: the negative lookahead is dropped.
Pattern3AtNoLookahead(text, p) == IF StandaloneAt(text, p) THEN p ELSE 0

\* pattern3 = r"\b([A-J])\b(?!.*\b[A-J]\b)" with re.DOTALL, tried at p: the
\* lookahead starts after the letter and .* reaches every later position.
Pattern3At(text, p) ==
    IF /\ StandaloneAt(text, p)
       /\ ~ \E q \in (p + 1)..Len(text) : StandaloneAt(text, q)
    THEN p ELSE 0

\* The pattern of tier 1, 2 or 3 tried at p
PatternAt(tier, text, p) ==
    CASE tier = 1 -> Pattern1At(text, p)
      [] tier = 2 -> Pattern2At(text, p)
      [] tier = 3 -> Pattern3At(text, p)

\* re.search: the match at the leftmost position, scanning from p.
RECURSIVE Search(_, _, _)
Search(tier, text, p) ==
    IF p > Len(text) THEN 0
    ELSE IF PatternAt(tier, text, p) # 0 THEN PatternAt(tier, text, p)
    ELSE Search(tier, text, p + 1)

\* Mutant of extract_answer: the "Answer: X" tier is tried first.
extract_answer_tier2_first(text) ==
    LET m1 == Search(1, text, 1)
        m2 == Search(2, text, 1)
        m3 == Search(3, text, 1)
    IN  IF m2 # 0 THEN upper(CharAt(text, m2))
        ELSE IF m1 # 0 THEN upper(CharAt(text, m1))
        ELSE IF m3 # 0 THEN upper(CharAt(text, m3))
        ELSE None

\* mmlu_pro_benchmark.extract_answer
extract_answer(text) ==
    LET m1 == Search(1, text, 1)
        m2 == Search(2, text, 1)
        m3 == Search(3, text, 1)
    IN  IF m1 # 0 THEN upper(CharAt(text, m1))
        ELSE IF m2 # 0 THEN upper(CharAt(text, m2))
        ELSE IF m3 # 0 THEN upper(CharAt(text, m3))
        ELSE None

\* benchmarks/mmlu_pro_cot.extract_answer: the third tier returns group 0,
\* the whole match, which is the letter (\b and the lookahead are empty).
extract_answer_cot(text) ==
    LET m1 == Search(1, text, 1)
        m2 == Search(2, text, 1)
        m3 == Search(3, text, 1)
    IN  IF m1 # 0 THEN upper(CharAt(text, m1))
        ELSE IF m2 # 0 THEN upper(CharAt(text, m2))
        ELSE IF m3 # 0 THEN upper(Slice(text, m3, m3))
        ELSE None

(***************************************************************************)
(* preprocess_dataset.  A raw record is a dict: question_id, cot_content   *)
(* and src may be missing (item.get with a default).                       *)
(***************************************************************************)
DictGet(d, key, default) == IF key \in DOMAIN d THEN d[key] ELSE default

IsRealOption(opt) == opt # "N/A"

\* Mutant of preprocess_item: a missing question_id counts from 1.
preprocess_item_id_from_one(item, processed) ==
    [question_id  |-> DictGet(item, "question_id", Len(processed) + 1),
     question     |-> item.question,
     options      |-> SelectSeq(item.options, IsRealOption),
     answer       |-> item.answer,
     answer_index |-> item.answer_index,
     category     |-> item.category,
     cot_content  |-> DictGet(item, "cot_content", ""),
     src          |-> DictGet(item, "src", "")]

\* One iteration of the loop: the record appended for `item`.
preprocess_item(item, processed) ==
    [question_id  |-> DictGet(item, "question_id", Len(processed)),
     question     |-> item.question,
     options      |-> SelectSeq(item.options, IsRealOption),
     answer       |-> item.answer,
     answer_index |-> item.answer_index,
     category     |-> item.category,
     cot_content  |-> DictGet(item, "cot_content", ""),
     src          |-> DictGet(item, "src", "")]

RECURSIVE preprocess_loop(_, _)
preprocess_loop(dataset, processed) ==
    IF dataset = <<>> THEN processed
    ELSE preprocess_loop(Tail(dataset),
                         Append(processed,
                                preprocess_item(Head(dataset), processed)))

preprocess_dataset(dataset) == preprocess_loop(dataset, <<>>)

(***************************************************************************)
(* format_prompt.  The parts are joined into one string as they are made.  *)
(***************************************************************************)
\* Python's list[:k] for k >= 0
Prefix(list, k) == SubSeq(list, 1, IF k < Len(list) THEN k ELSE Len(list))

\* for i, opt in enumerate(options): f"{CHOICES[i]}. {opt}\n"   (from i on)
RECURSIVE OptionLines(_, _)
OptionLines(options, i) ==
    IF i > Len(options) THEN ""
    ELSE CHOICES[i] \o ". " \o options[i] \o "\n"
         \o OptionLines(options, i + 1)

instruction(category) ==
    "The following are multiple choice questions (with answers) about "
    \o category \o ". "
    \o "Think step by step and then finish your answer with "
    \o "\"the answer is (X)\" where X is the correct letter choice.\n\n"

\* The answer part of an exemplar: its rationale with the marker rewritten,
\* or the direct answer line.
ExampleAnswer(ex, use_cot_flag) ==
    IF use_cot_flag /\ ex.cot_content # ""
    THEN replace(ex.cot_content, "A: Let's think step by step.",
                 "Answer: Let's think step by step.") \o "\n\n"
    ELSE "Answer: The answer is (" \o CHOICES[ex.answer_index + 1] \o ").\n\n"

ExampleBlock(ex, use_cot_flag) ==
    "Question:\n" \o ex.question \o "\n" \o "Options:\n"
    \o OptionLines(ex.options, 1) \o ExampleAnswer(ex, use_cot_flag)

RECURSIVE ExampleBlocks(_, _)
ExampleBlocks(examples, use_cot_flag) ==
    IF examples = <<>> THEN ""
    ELSE ExampleBlock(Head(examples), use_cot_flag)
         \o ExampleBlocks(Tail(examples), use_cot_flag)

\* few_shot_examples is a list or None; `if few_shot_examples:` is false for
\* None and for the empty list, so None is passed as the empty list.
NoExamples == <<>>

format_prompt(question, options, category, few_shot_examples, use_cot_flag) ==
    instruction(category)
    \o (IF few_shot_examples # <<>>
        THEN ExampleBlocks(few_shot_examples, use_cot_flag) ELSE "")
    \o "Question:\n" \o question \o "\n" \o "Options:\n"
    \o OptionLines(options, 1)
    \o "Answer: Let's think step by step."

(***************************************************************************)
(* The prompt of benchmarks/mmlu_pro_cot.py.                               *)
(***************************************************************************)
DictGetOr(d, key, default) == IF key \in DOMAIN d THEN d[key] ELSE default

\* [d for d in data if d['category'] == category]
RECURSIVE select_by_category(_, _)
select_by_category(data, category) ==
    IF data = <<>> THEN <<>>
    ELSE (IF Head(data).category = category THEN <<Head(data)>> ELSE <<>>)
         \o select_by_category(Tail(data), category)

format_cot_example(example, include_answer) ==
    LET head == "Question:\n" \o example.question \o "\nOptions:\n"
                \o OptionLines(example.options, 1)
        cot == DictGetOr(example, "cot_content", "")
    IN  IF include_answer
        THEN IF cot # ""
             THEN head \o replace(cot, "A: Let's think step by step.",
                                  "Answer: Let's think step by step.")
                  \o "\n\n"
             ELSE head
        ELSE head \o "Answer: Let's think step by step."

RECURSIVE CotExamples(_)
CotExamples(same_cat) ==
    IF same_cat = <<>> THEN ""
    ELSE format_cot_example(Head(same_cat), TRUE)
         \o CotExamples(Tail(same_cat))

generate_cot_prompt(val, curr, k) ==
    "The following are multiple choice questions (with answers) about "
    \o curr.category
    \o ". Think step by step and then finish your answer with "
    \o "\"the answer is (X)\" where X is the correct letter choice.\n\n"
    \o CotExamples(Prefix(select_by_category(val, curr.category), k))
    \o format_cot_example(curr, FALSE)

(***************************************************************************)
(* Arithmetic, Counter and dict helpers.                                   *)
(***************************************************************************)
Min(a, b) == IF a < b THEN a ELSE b
Max(a, b) == IF a > b THEN a ELSE b

RECURSIVE Gcd(_, _)
Gcd(a, b) == IF b = 0 THEN a ELSE Gcd(b, a % b)

\* Python's a / b for b > 0: the value of the quotient, as a fraction in
\* lowest terms (equal fractions are equal values).
TrueDiv(a, b) == LET g == Gcd(a, b) IN <<a \div g, b \div g>>

Range(list) == {list[i] : i \in 1..Len(list)}

\* Counter(): a dict whose missing keys read as 0.
EmptyCounter == <<>>
CounterGet(counter, key) == IF key \in DOMAIN counter THEN counter[key] ELSE 0
CounterInc(counter, key) ==
    IF key \in DOMAIN counter THEN [counter EXCEPT ![key] = @ + 1]
    ELSE counter @@ (key :> 1)

RECURSIVE SumOver(_, _)
SumOver(f, keys) ==
    IF keys = {} THEN 0
    ELSE LET k == CHOOSE x \in keys : TRUE
         IN  f[k] + SumOver(f, keys \ {k})

\* sum(counter.values())
SumValues(counter) == SumOver(counter, DOMAIN counter)

(***************************************************************************)
(* State of one run of evaluate_mmlu_pro, and of one call of a function    *)
(* of the module (call).                                                   *)
(***************************************************************************)
VARIABLES
    pc,                  \* position in evaluate_mmlu_pro
    ds,                  \* the loaded dataset: raw "test" and "validation"
    num_few_shot,        \* argument num_few_shot
    use_cot,             \* argument use_cot
    max_model_len,       \* argument max_model_len
    tokenizer,           \* len(tokenizer.encode(.)) by number of exemplars
    llm,                 \* the backend: RequestOutput returned for prompt i
    test_data,
    val_data,
    val_by_category,
    prompts,
    test_items,
    outputs,
    sample_rows,
    by_category_correct,
    by_category_total,
    by_domain_correct,
    by_domain_total,
    result,              \* the returned overall, by_category, by_domain
    call,                \* a single call: [fn, arg, ret, returned]
    total_limit,         \* argument total_limit: <<>> for None, <<L>> for L
    selected_subjects,   \* argument selected_subjects
    acceptance_threshold, \* --acceptance-threshold, as a fraction
    details,             \* --details
    fault,               \* the call of the run that raises, "none" if none
    all_categories,
    tokenizer_calls,     \* number of tokenizer.encode calls made so far
    backend_calls,       \* the prompt lists llm.generate was called with
    files,               \* state of each result file of the run directory
    exit_code,           \* exit status of the process, NotExited before
    status               \* the printed "MMLU Benchmark Status"

main_inputs == <<total_limit, selected_subjects, acceptance_threshold,
                 details, fault>>
input_vars == <<ds, num_few_shot, use_cot, max_model_len, tokenizer, llm,
                main_inputs>>
main_vars == <<files, exit_code, status>>
local_vars == <<test_data, val_data, val_by_category, prompts, test_items,
                outputs, sample_rows, by_category_correct, by_category_total,
                by_domain_correct, by_domain_total, result, all_categories,
                tokenizer_calls, backend_calls, main_vars>>
vars == <<pc, input_vars, local_vars, call>>

\* max_tokens of SamplingParams, and the 2048 subtracted from max_model_len
MAX_NEW_TOKENS == 2048

(***************************************************************************)
(* The tokenizer is external.  Its token count is an arbitrary function of *)
(* the prompt: here of the number of exemplar blocks in the prompt, which  *)
(* is the number of "Question:\n" headings before the target's.            *)
(***************************************************************************)
\* Number of positions of s at which sub starts
CountOccurrences(s, sub) ==
    Cardinality({p \in 1..(Len(s) - Len(sub) + 1) :
                    SubSeq(s, p, p + Len(sub) - 1) = sub})

NumExemplarBlocks(prompt) == CountOccurrences(prompt, "Question:\n") - 1

\* len(tokenizer.encode(prompt))
TokenCount(tok, prompt) == tok[NumExemplarBlocks(prompt)]

(***************************************************************************)
(* evaluate_mmlu_pro: few-shot pool by category.                           *)
(***************************************************************************)
\* Mutant of GroupByCategory: every category gets all validation items.
GroupAllTogether(items, groups) ==
    [cat \in {items[i].category : i \in 1..Len(items)} |-> items]

\* val_by_category after the grouping loop over val_data
RECURSIVE GroupByCategory(_, _)
GroupByCategory(items, groups) ==
    IF items = <<>> THEN groups
    ELSE LET item == Head(items)
             cat == item.category
         IN  GroupByCategory(Tail(items),
                IF cat \notin DOMAIN groups
                THEN groups @@ (cat :> <<item>>)
                ELSE [groups EXCEPT ![cat] = Append(@, item)])

\* The prompt built with few_shot[:k] if k > 0 else None
PromptWith(item, few_shot, k, cot) ==
    format_prompt(item.question, item.options, item.category,
                  IF k > 0 THEN Prefix(few_shot, k) ELSE NoExamples, cot)

\* Mutant of Fits: a prompt of exactly the budget is taken as too long.
FitsStrictly(tok, prompt, model_len) ==
    TokenCount(tok, prompt) < model_len - MAX_NEW_TOKENS

Fits(tok, prompt, model_len) ==
    TokenCount(tok, prompt) <= model_len - MAX_NEW_TOKENS

\* Mutant of ReduceFewShot: the loop is range(num_few_shot - 1, 0, -1).
RECURSIVE ReduceFewShotStopAtOne(_, _, _, _, _, _, _)
ReduceFewShotStopAtOne(item, few_shot, k, prompt, cot, tok, model_len) ==
    IF k < 1 THEN prompt
    ELSE LET rebuilt ==
                 format_prompt(item.question, item.options, item.category,
                               Prefix(few_shot, k), cot)
         IN  IF TokenCount(tok, rebuilt) <= model_len - MAX_NEW_TOKENS
             THEN rebuilt
             ELSE ReduceFewShotStopAtOne(item, few_shot, k - 1, rebuilt, cot,
                                         tok, model_len)

\* for k in range(num_few_shot - 1, -1, -1): rebuild; break when it fits.
\* `prompt` is the value the variable holds when the loop is entered at k.
RECURSIVE ReduceFewShot(_, _, _, _, _, _, _)
ReduceFewShot(item, few_shot, k, prompt, cot, tok, model_len) ==
    IF k < 0 THEN prompt
    ELSE LET rebuilt == PromptWith(item, few_shot, k, cot)
         IN  IF Fits(tok, rebuilt, model_len) THEN rebuilt
             ELSE ReduceFewShot(item, few_shot, k - 1, rebuilt, cot, tok,
                                model_len)

\* The body of `for item in test_data`: the prompt appended for item.
BuildOnePrompt(item, groups, nshot, cot, tok, model_len) ==
    LET few_shot == Prefix(DictGet(groups, item.category, <<>>), nshot)
        prompt == format_prompt(item.question, item.options, item.category,
                                IF nshot > 0 THEN few_shot ELSE NoExamples,
                                cot)
    IN  IF ~ Fits(tok, prompt, model_len)
        THEN ReduceFewShot(item, few_shot, nshot - 1, prompt, cot, tok,
                           model_len)
        ELSE prompt

\* Number of tokenizer.encode calls of the loop entered at k (line 263)
RECURSIVE ReduceMeasurements(_, _, _, _, _, _)
ReduceMeasurements(item, few_shot, k, cot, tok, model_len) ==
    IF k < 0 THEN 0
    ELSE IF Fits(tok, PromptWith(item, few_shot, k, cot), model_len) THEN 1
         ELSE 1 + ReduceMeasurements(item, few_shot, k - 1, cot, tok,
                                     model_len)

\* Number of tokenizer.encode calls of one iteration of `for item in
\* test_data`: line 252, and line 263 once per rebuilt prompt.
Measurements(item, groups, nshot, cot, tok, model_len) ==
    LET few_shot == Prefix(DictGet(groups, item.category, <<>>), nshot)
        prompt == format_prompt(item.question, item.options, item.category,
                                IF nshot > 0 THEN few_shot ELSE NoExamples,
                                cot)
    IN  IF ~ Fits(tok, prompt, model_len)
        THEN 1 + ReduceMeasurements(item, few_shot, nshot - 1, cot, tok,
                                    model_len)
        ELSE 1

(***************************************************************************)
(* The category filter and the row limit (lines 191-203).                  *)
(***************************************************************************)
\* s.split(sep) for a one-character sep
RECURSIVE split(_, _)
split(s, sep) ==
    IF ~ StrIn(sep, s) THEN <<s>>
    ELSE LET p == CHOOSE q \in 1..Len(s) :
                      /\ CharAt(s, q) = sep
                      /\ \A r \in 1..(q - 1) : CharAt(s, r) # sep
         IN  <<Slice(s, 1, p - 1)>> \o split(Slice(s, p + 1, Len(s)), sep)

\* s.strip()
RECURSIVE strip(_)
strip(s) ==
    IF s = "" THEN ""
    ELSE IF IsSpace(CharAt(s, 1)) THEN strip(Slice(s, 2, Len(s)))
    ELSE IF IsSpace(CharAt(s, Len(s))) THEN strip(Slice(s, 1, Len(s) - 1))
    ELSE s

\* The characters of the model's strings in code point order
CODE_POINTS == " " \o DIGITS \o UPPERCASE \o "_" \o LOWERCASE

ord(c) == IF \E i \in 1..Len(CODE_POINTS) : CharAt(CODE_POINTS, i) = c
          THEN CHOOSE i \in 1..Len(CODE_POINTS) : CharAt(CODE_POINTS, i) = c
          ELSE 0

\* a < b for Python strings
RECURSIVE StrLess(_, _)
StrLess(a, b) ==
    IF b = "" THEN FALSE
    ELSE IF a = "" THEN TRUE
    ELSE IF Head(a) = Head(b) THEN StrLess(Tail(a), Tail(b))
    ELSE ord(Head(a)) < ord(Head(b))

\* sorted(strings) for a set of strings
RECURSIVE sorted(_)
sorted(strings) ==
    IF strings = {} THEN <<>>
    ELSE LET least == CHOOSE x \in strings :
                          \A y \in strings \ {x} : StrLess(x, y)
         IN  <<least>> \o sorted(strings \ {least})

\* [x for x in list if Keep[x]]
RECURSIVE FilterSeq(_, _)
FilterSeq(list, keep) ==
    IF list = <<>> THEN <<>>
    ELSE (IF Head(list) \in keep THEN <<Head(list)>> ELSE <<>>)
         \o FilterSeq(Tail(list), keep)

\* selected = [s.strip() for s in selected_subjects.split(",")]
Selected(subjects) ==
    LET parts == split(subjects, ",")
    IN  [i \in 1..Len(parts) |-> strip(parts[i])]

\* any(s.lower() in c.lower() for s in selected)
MatchesSelected(c, selected) ==
    \E i \in 1..Len(selected) : StrIn(lower(selected[i]), lower(c))

\* Lines 192-197: the value of all_categories
CategoriesToEvaluate(items, subjects) ==
    LET everything == sorted({items[i].category : i \in 1..Len(items)})
    IN  IF subjects # "all"
        THEN FilterSeq(everything,
                       {c \in Range(everything) :
                            MatchesSelected(c, Selected(subjects))})
        ELSE everything

NoLimit == <<>>

\* list[:n] of Python
SliceTo(list, n) ==
    SubSeq(list, 1, IF n >= 0 THEN Min(n, Len(list))
                    ELSE Max(0, Len(list) + n))

\* Lines 202-203: if total_limit: test_data = test_data[:total_limit]
ApplyLimit(items, limit) ==
    IF limit # NoLimit /\ limit[1] # 0 THEN SliceTo(items, limit[1])
    ELSE items

(***************************************************************************)
(* evaluate_mmlu_pro as a state machine.                                   *)
(***************************************************************************)
IndexError == "<IndexError>"

\* list[i] of Python for i >= 0
PyIndex(list, i) ==
    IF 0 <= i /\ i < Len(list) THEN list[i + 1] ELSE IndexError

\* Mutant of GeneratedText: output.outputs[0].text without the guard.
GeneratedTextUnguarded(output) ==
    IF Len(output.outputs) > 0 THEN output.outputs[1].text ELSE IndexError

\* output.outputs[0].text if output.outputs else ""
GeneratedText(output) ==
    IF output.outputs # <<>> THEN output.outputs[1].text ELSE ""

\* Mutant of IsCorrect: any extracted letter counts as correct.
IsCorrectAnyLetter(pred, correct_answer) == pred # None

\* is_correct = pred == correct_answer
IsCorrect(pred, correct_answer) == pred = correct_answer

\* Mutant of SampleRow: idx counts from 1.
SampleRowOneBased(i, item, domain, correct_answer, pred, generated_text) ==
    [idx          |-> i + 1,
     question_id  |-> item.question_id,
     category     |-> item.category,
     domain       |-> domain,
     answer       |-> correct_answer,
     pred         |-> pred,
     correct      |-> IF pred = correct_answer THEN 1 ELSE 0,
     model_output |-> Slice(generated_text, 1, 500)]

\* The dict appended to sample_rows for the i-th pair (i from 0)
SampleRow(i, item, domain, correct_answer, pred, generated_text) ==
    [idx          |-> i,
     question_id  |-> item.question_id,
     category     |-> item.category,
     domain       |-> domain,
     answer       |-> correct_answer,
     pred         |-> pred,
     correct      |-> IF IsCorrect(pred, correct_answer) THEN 1 ELSE 0,
     model_output |-> Slice(generated_text, 1, 500)]

\* Mutant of Accuracy: correct / (total + 1)
AccuracyPlusOne(correct, total) == TrueDiv(correct, total + 1)

\* correct / max(1, total)
Accuracy(correct, total) == TrueDiv(correct, Max(1, total))

\* Lines 186-237: load and preprocess both splits, compute the categories
\* to evaluate, apply the row limit, load the backend and the tokenizer,
\* group the validation items by category, start with no prompts.  A load
\* that raises ends the function.
LoadData ==
    /\ pc = "start"
    /\ IF fault \in {"datasets", "vllm", "tokenizer"}
       THEN /\ pc' = "raised"
            /\ UNCHANGED <<test_data, val_data, all_categories,
                           val_by_category, prompts, test_items>>
       ELSE /\ test_data' =
                   ApplyLimit(preprocess_dataset(ds.test), total_limit)
            /\ val_data' = preprocess_dataset(ds.validation)
            /\ all_categories' =
                   CategoriesToEvaluate(preprocess_dataset(ds.test),
                                        selected_subjects)
            /\ val_by_category' =
                   GroupByCategory(preprocess_dataset(ds.validation), <<>>)
            /\ prompts' = <<>>
            /\ test_items' = <<>>
            /\ pc' = "build"
    /\ UNCHANGED <<input_vars, outputs, sample_rows, by_category_correct,
                   by_category_total, by_domain_correct, by_domain_total,
                   result, call, tokenizer_calls, backend_calls, main_vars>>

\* Lines 239-268: one iteration of `for item in test_data`.
BuildPrompt ==
    /\ pc = "build"
    /\ Len(prompts) < Len(test_data)
    /\ LET item == test_data[Len(prompts) + 1]
       IN  /\ prompts' = Append(prompts,
                  BuildOnePrompt(item, val_by_category, num_few_shot,
                                 use_cot, tokenizer, max_model_len))
           /\ test_items' = Append(test_items, item)
           /\ tokenizer_calls' = tokenizer_calls
                  + Measurements(item, val_by_category, num_few_shot,
                                 use_cot, tokenizer, max_model_len)
    /\ UNCHANGED <<pc, input_vars, test_data, val_data, val_by_category,
                   outputs, sample_rows, by_category_correct,
                   by_category_total, by_domain_correct, by_domain_total,
                   result, call, all_categories, backend_calls, main_vars>>

\* Mutant of LoopIsOver: the loop is left after the first prompt.
LoopIsOverAfterOne(built, items) == Len(built) >= Min(1, Len(items))

\* `for item in test_data` (line 239) has taken every item.
LoopIsOver(built, items) == Len(built) = Len(items)

\* Lines 270-284: the single batch call of the backend, which returns one
\* RequestOutput per prompt in prompt order, then the empty counters.  A
\* call that raises ends the function.
Generate ==
    /\ pc = "build"
    /\ LoopIsOver(prompts, test_data)
    /\ backend_calls' = Append(backend_calls, prompts)
    /\ IF fault = "generate"
       THEN /\ pc' = "raised"
            /\ UNCHANGED <<outputs, sample_rows, by_category_correct,
                           by_category_total, by_domain_correct,
                           by_domain_total>>
       ELSE /\ outputs' = [i \in 1..Len(prompts) |-> llm[i]]
            /\ sample_rows' = <<>>
            /\ by_category_correct' = EmptyCounter
            /\ by_category_total' = EmptyCounter
            /\ by_domain_correct' = EmptyCounter
            /\ by_domain_total' = EmptyCounter
            /\ pc' = "score"
    /\ UNCHANGED <<input_vars, test_data, val_data, val_by_category, prompts,
                   test_items, result, call, all_categories, tokenizer_calls,
                   main_vars>>

\* Lines 286-311: one iteration of the loop over zip(test_items, outputs).
ScoreItem ==
    /\ pc = "score"
    /\ Len(sample_rows) < Min(Len(test_items), Len(outputs))
    /\ LET i == Len(sample_rows)
           item == test_items[i + 1]
           output == outputs[i + 1]
           generated_text == GeneratedText(output)
           correct_answer == PyIndex(CHOICES, item.answer_index)
       IN  IF generated_text = IndexError \/ correct_answer = IndexError
           THEN /\ pc' = "raised"
                /\ UNCHANGED <<sample_rows, by_category_correct,
                               by_category_total, by_domain_correct,
                               by_domain_total>>
           ELSE LET pred == extract_answer(generated_text)
                    is_correct == IsCorrect(pred, correct_answer)
                    category == item.category
                    domain == get_domain(category)
                IN  /\ by_category_total' =
                           CounterInc(by_category_total, category)
                    /\ by_domain_total' = CounterInc(by_domain_total, domain)
                    /\ by_category_correct' =
                           IF is_correct
                           THEN CounterInc(by_category_correct, category)
                           ELSE by_category_correct
                    /\ by_domain_correct' =
                           IF is_correct
                           THEN CounterInc(by_domain_correct, domain)
                           ELSE by_domain_correct
                    /\ sample_rows' = Append(sample_rows,
                           SampleRow(i, item, domain, correct_answer, pred,
                                     generated_text))
                    /\ pc' = pc
    /\ UNCHANGED <<input_vars, test_data, val_data, val_by_category, prompts,
                   test_items, outputs, result, call, all_categories,
                   tokenizer_calls, backend_calls, main_vars>>

\* Lines 313-338: the accuracies, and the return.
Finish ==
    /\ pc = "score"
    /\ Len(sample_rows) = Min(Len(test_items), Len(outputs))
    /\ LET total_correct == SumValues(by_category_correct)
           total_count == SumValues(by_category_total)
       IN  result' =
             [overall |->
                [overall_accuracy |->
                     Accuracy(total_correct, total_count),
                 total_questions  |-> total_count,
                 total_correct    |-> total_correct,
                 total_wrong      |-> total_count - total_correct,
                 completion_rate  |-> 1,
                 failed_questions |-> 0],
              by_category |->
                [cat \in DOMAIN by_category_total |->
                     Accuracy(CounterGet(by_category_correct, cat),
                              CounterGet(by_category_total, cat))],
              by_domain |->
                [dom \in DOMAIN by_domain_total |->
                     Accuracy(CounterGet(by_domain_correct, dom),
                              CounterGet(by_domain_total, dom))]]
    /\ pc' = "done"
    /\ UNCHANGED <<input_vars, test_data, val_data, val_by_category, prompts,
                   test_items, outputs, sample_rows, by_category_correct,
                   by_category_total, by_domain_correct, by_domain_total,
                   call, all_categories, tokenizer_calls, backend_calls,
                   main_vars>>

Next == LoadData \/ BuildPrompt \/ Generate \/ ScoreItem \/ Finish

(***************************************************************************)
(* main as a state machine around evaluate_mmlu_pro: the result files,     *)
(* the summary and the exit status.                                        *)
(***************************************************************************)
\* a >= b for fractions <<numerator, denominator>>
GreaterEqual(a, b) == a[1] * b[2] >= b[1] * a[2]

\* Mutant of Passed: overall_accuracy > acceptance_threshold
PassedStrictly(overall, threshold) ==
    ~ GreaterEqual(threshold, overall.overall_accuracy)

\* Line 382: passed = overall['overall_accuracy'] >= acceptance_threshold
Passed(overall, threshold) ==
    GreaterEqual(overall.overall_accuracy, threshold)

\* Lines 353-389: the printed status and the returned flag
print_results_summary(overall, threshold) ==
    [status |-> IF Passed(overall, threshold) THEN "PASS" ELSE "FAIL",
     passed |-> Passed(overall, threshold)]

\* Lines 420-452: the arguments are parsed and the run directory is made.
StartMain ==
    /\ pc = "main"
    /\ pc' = "start"
    /\ UNCHANGED <<input_vars, local_vars, call>>

\* What a write that raises leaves of its file: nothing when the file
\* could not be opened, a part of it when the writing broke off.
BrokenWrite == {"absent", "partial"}

\* Mutant of WriteFile: the exception of a write is caught and ignored.
WriteFileAndCarryOn(name, next) ==
    /\ IF fault = name
       THEN \E left \in BrokenWrite : files' = [files EXCEPT ![name] = left]
       ELSE files' = [files EXCEPT ![name] = "complete"]
    /\ pc' = next

\* Path.write_text, or the csv writer, on file name: pc moves to next when
\* the write returns.
WriteFile(name, next) ==
    IF fault = name
    THEN /\ \E left \in BrokenWrite :
                files' = [files EXCEPT ![name] = left]
         /\ pc' = "raised"
    ELSE /\ files' = [files EXCEPT ![name] = "complete"]
         /\ pc' = next

\* What the actions of main after evaluate_mmlu_pro leave unchanged
MainFrame ==
    UNCHANGED <<input_vars, test_data, val_data, val_by_category, prompts,
                test_items, outputs, sample_rows, by_category_correct,
                by_category_total, by_domain_correct, by_domain_total,
                result, all_categories, tokenizer_calls, backend_calls,
                call>>

\* Line 467
WriteOverall ==
    /\ pc = "done"
    /\ WriteFile("overall.json", "write_by_category")
    /\ UNCHANGED <<exit_code, status>>
    /\ MainFrame

\* Line 468
WriteByCategory ==
    /\ pc = "write_by_category"
    /\ WriteFile("by_category.json", "write_by_domain")
    /\ UNCHANGED <<exit_code, status>>
    /\ MainFrame

\* Line 469
WriteByDomain ==
    /\ pc = "write_by_domain"
    /\ WriteFile("by_domain.json", "write_samples")
    /\ UNCHANGED <<exit_code, status>>
    /\ MainFrame

\* Lines 471-476: samples.csv, only with --details 1 and at least one row
WriteSamples ==
    /\ pc = "write_samples"
    /\ IF details = 1 /\ sample_rows # <<>>
       THEN WriteFile("samples.csv", "write_report")
       ELSE /\ pc' = "write_report"
            /\ UNCHANGED files
    /\ UNCHANGED <<exit_code, status>>
    /\ MainFrame

\* Lines 478-507
WriteReport ==
    /\ pc = "write_report"
    /\ WriteFile("report.md", "summary")
    /\ UNCHANGED <<exit_code, status>>
    /\ MainFrame

\* Lines 509-520: the summary is printed; sys.exit(1) if not passed,
\* otherwise main returns and the process ends with status 0.
PrintSummary ==
    /\ pc = "summary"
    /\ LET summary ==
               print_results_summary(result.overall, acceptance_threshold)
       IN  /\ status' = summary.status
           /\ exit_code' = IF ~ summary.passed THEN 1 ELSE 0
    /\ pc' = "exited"
    /\ UNCHANGED files
    /\ MainFrame

\* An exception nothing catches leaves main: the interpreter prints the
\* traceback and the process ends with status 1.
Abort ==
    /\ pc = "raised"
    /\ pc' = "aborted"
    /\ exit_code' = 1
    /\ UNCHANGED <<files, status>>
    /\ MainFrame

NextMain ==
    \/ StartMain
    \/ Next
    \/ WriteOverall
    \/ WriteByCategory
    \/ WriteByDomain
    \/ WriteSamples
    \/ WriteReport
    \/ PrintSummary
    \/ Abort

(***************************************************************************)
(* Inputs of a run.                                                        *)
(***************************************************************************)
TestPool == {
    [question_id |-> 70, question |-> "tq1", options |-> <<"3", "4">>,
     answer |-> "A", answer_index |-> 0, category |-> "math",
     cot_content |-> "", src |-> "s1"],
    [question |-> "tq2", options |-> <<"5", "6", "N/A">>,
     answer |-> "B", answer_index |-> 1, category |-> "math"],
    [question_id |-> 72, question |-> "tq3",
     options |-> <<"N/A", "x", "y">>,
     answer |-> "C", answer_index |-> 2, category |-> "law", src |-> "s3"],
    [question_id |-> 73, question |-> "tq4", options |-> <<"u", "v">>,
     answer |-> "A", answer_index |-> 0, category |-> "physics",
     cot_content |-> ""] }

ValMath1 ==
    [question_id |-> 1, question |-> "vq1", options |-> <<"1", "2">>,
     answer |-> "B", answer_index |-> 1, category |-> "math",
     cot_content |-> "A: Let's think step by step. The answer is (B).",
     src |-> "v"]
ValLaw1 ==
    [question_id |-> 2, question |-> "vq2", options |-> <<"p", "N/A", "q">>,
     answer |-> "A", answer_index |-> 0, category |-> "law",
     cot_content |-> "", src |-> "v"]
ValMath2 ==
    [question_id |-> 3, question |-> "vq3", options |-> <<"7", "8", "9">>,
     answer |-> "C", answer_index |-> 2, category |-> "math",
     cot_content |-> "A: Let's think step by step. So (C).", src |-> "v"]
ValMath3 ==
    [question |-> "vq4", options |-> <<"0", "1">>,
     answer |-> "A", answer_index |-> 0, category |-> "math"]

ValSets == { <<ValMath1, ValLaw1, ValMath2, ValMath3>>,
             <<ValLaw1, ValMath3>> }

\* Sequences of 1..n distinct records of pool
DistinctSeqs(pool, n) ==
    UNION { { q \in [1..m -> pool] :
                \A i, j \in 1..m : i # j => q[i] # q[j] } : m \in 1..n }

\* The record of TestPool with the given question
TestRecord(q) == CHOOSE r \in TestPool : r.question = q

\* The records of TestPool in the order of their questions
MainTest == <<TestRecord("tq1"), TestRecord("tq2"), TestRecord("tq3"),
              TestRecord("tq4")>>

Reversed(list) == [i \in 1..Len(list) |-> list[Len(list) + 1 - i]]

\* The sequences of 1..n records taken from list in the order of list
SubLists(list, n) ==
    { q \in DistinctSeqs(Range(list), n) :
          \A i, j \in 1..Len(q) :
              i < j => \E a, b \in 1..Len(list) :
                          a < b /\ list[a] = q[i] /\ list[b] = q[j] }

\* Test splits of 1..n records: records of TestPool in the order of their
\* questions, or in the opposite order
TestSplits(n) == SubLists(MainTest, n) \cup SubLists(Reversed(MainTest), n)

\* What the backend returns for one prompt: a RequestOutput
OutPool == {
    [outputs |-> <<>>],
    [outputs |-> <<[text |-> ""]>>],
    [outputs |-> <<[text |-> " 3+4. The answer is (A)."]>>],
    [outputs |-> <<[text |-> " A, no: C"]>>],
    [outputs |-> <<[text |-> "no letter here"]>>] }

DEFAULT_MAX_MODEL_LEN == 4096

\* Token counts at and just above the budget of the default max_model_len
TokenLens == {DEFAULT_MAX_MODEL_LEN - MAX_NEW_TOKENS,
              DEFAULT_MAX_MODEL_LEN - MAX_NEW_TOKENS + 1}

Unset == <<>>

\* The files main writes into the run directory, in the order of writing
RESULT_FILES == <<"overall.json", "by_category.json", "by_domain.json",
                  "samples.csv", "report.md">>

NoFiles == [f \in Range(RESULT_FILES) |-> "absent"]

\* exit_code of a process that has not ended
NotExited == -1

\* The defaults of the command line: no --total-limit, --selected-subjects
\* all, --acceptance-threshold 0.65, --details 1; and no call raises.
DefaultMainInputs ==
    /\ total_limit = NoLimit
    /\ selected_subjects = "all"
    /\ acceptance_threshold = <<13, 20>>
    /\ details = 1
    /\ fault = "none"

InitLocals ==
    /\ all_categories = Unset
    /\ tokenizer_calls = 0
    /\ backend_calls = <<>>
    /\ files = NoFiles
    /\ exit_code = NotExited
    /\ status = None
    /\ test_data = Unset
    /\ val_data = Unset
    /\ val_by_category = Unset
    /\ prompts = Unset
    /\ test_items = Unset
    /\ outputs = Unset
    /\ sample_rows = Unset
    /\ by_category_correct = Unset
    /\ by_category_total = Unset
    /\ by_domain_correct = Unset
    /\ by_domain_total = Unset
    /\ result = Unset

NoCall == [fn |-> "", arg |-> "", ret |-> "", returned |-> FALSE]

\* Runs that vary the test split and the backend's outputs; every prompt
\* fits the budget.
Init ==
    /\ pc = "start"
    /\ ds \in { [test |-> t, validation |-> v] :
                  t \in TestSplits(MaxTest),
                  v \in { <<ValMath1, ValLaw1, ValMath2, ValMath3>> } }
    /\ num_few_shot = MaxFewShot
    /\ use_cot = TRUE
    /\ max_model_len = DEFAULT_MAX_MODEL_LEN
    /\ tokenizer = [n \in 0..MaxFewShot |->
                      DEFAULT_MAX_MODEL_LEN - MAX_NEW_TOKENS]
    /\ llm \in [1..Len(ds.test) -> OutPool]
    /\ DefaultMainInputs
    /\ InitLocals
    /\ call = NoCall

Spec == Init /\ [][Next]_vars

\* Runs that vary the validation split, the few-shot count, use_cot and
\* the tokenizer.
InitBudget ==
    /\ pc = "start"
    /\ ds \in { [test |-> t, validation |-> v] :
                  t \in TestSplits(MaxTest), v \in ValSets }
    /\ num_few_shot \in 0..MaxFewShot
    /\ use_cot \in BOOLEAN
    /\ max_model_len = DEFAULT_MAX_MODEL_LEN
    /\ tokenizer \in [0..MaxFewShot -> TokenLens]
    /\ llm = [i \in 1..Len(ds.test) |-> [outputs |-> <<[text |-> ""]>>]]
    /\ DefaultMainInputs
    /\ InitLocals
    /\ call = NoCall

SpecBudget == InitBudget /\ [][Next]_vars

\* A RequestOutput whose answer is A, and one without outputs
MainOutPool == {
    [outputs |-> <<[text |-> " The answer is (A)."]>>],
    [outputs |-> <<>>] }

\* The calls of a run that can raise
Faults == {"datasets", "vllm", "tokenizer", "generate"}
              \cup Range(RESULT_FILES)

\* Thresholds as fractions: 1/2 and the default 0.65
Thresholds == {<<1, 2>>, <<13, 20>>}

\* Runs of main that vary the number of test items, the outputs, the
\* threshold, --details and the call that raises.
InitMain ==
    /\ pc = "main"
    /\ ds \in { [test |-> SliceTo(MainTest, n),
                 validation |-> <<ValLaw1, ValMath3>>] :
                   n \in 0..MaxRecords }
    /\ num_few_shot = 1
    /\ use_cot = TRUE
    /\ max_model_len = DEFAULT_MAX_MODEL_LEN
    /\ tokenizer = [n \in 0..MaxFewShot |->
                      DEFAULT_MAX_MODEL_LEN - MAX_NEW_TOKENS]
    /\ llm \in [1..Len(ds.test) -> MainOutPool]
    /\ total_limit = NoLimit
    /\ selected_subjects = "all"
    /\ acceptance_threshold \in Thresholds
    /\ details \in {0, 1}
    /\ fault \in {"none"} \cup Faults
    /\ InitLocals
    /\ call = NoCall

SpecMain == InitMain /\ [][NextMain]_vars

\* Values of --selected-subjects
SubjectFilters == {"all", "law", "Math, PHYS"}

\* Values of total_limit: None, and 0 up to more than the test items
Limits == {NoLimit} \cup {<<n>> : n \in 0..(MaxTest + 1)}

\* Runs of evaluate_mmlu_pro that vary the test split, the subject filter
\* and the row limit.
InitSelect ==
    /\ pc = "start"
    /\ ds \in { [test |-> t, validation |-> <<ValLaw1, ValMath3>>] :
                   t \in DistinctSeqs(TestPool, MaxTest) }
    /\ num_few_shot = 1
    /\ use_cot = TRUE
    /\ max_model_len = DEFAULT_MAX_MODEL_LEN
    /\ tokenizer = [n \in 0..MaxFewShot |->
                      DEFAULT_MAX_MODEL_LEN - MAX_NEW_TOKENS]
    /\ llm = [i \in 1..Len(ds.test) |->
                [outputs |-> <<[text |-> " The answer is (A)."]>>]]
    /\ total_limit \in Limits
    /\ selected_subjects \in SubjectFilters
    /\ acceptance_threshold = <<13, 20>>
    /\ details = 1
    /\ fault = "none"
    /\ InitLocals
    /\ call = NoCall

SpecSelect == InitSelect /\ [][Next]_vars

(***************************************************************************)
(* Single calls of extract_answer (both modules), get_domain and           *)
(* preprocess_dataset on enumerated arguments.                             *)
(***************************************************************************)
IdleRun ==
    /\ pc = "call"
    /\ ds = [test |-> <<>>, validation |-> <<>>]
    /\ num_few_shot = 0
    /\ use_cot = TRUE
    /\ max_model_len = DEFAULT_MAX_MODEL_LEN
    /\ tokenizer = <<>>
    /\ llm = <<>>
    /\ DefaultMainInputs
    /\ InitLocals

Pending(arg) == [fn |-> "", arg |-> arg, ret |-> None, returned |-> FALSE]

Returned(fn, ret) ==
    [fn |-> fn, arg |-> call.arg, ret |-> ret, returned |-> TRUE]

\* All concatenations of at most n elements of pieces
RECURSIVE Concats(_, _)
Concats(pieces, n) ==
    IF n = 0 THEN {""}
    ELSE LET shorter == Concats(pieces, n - 1)
         IN  shorter \cup {t \o piece : t \in shorter, piece \in pieces}

TextPieces == {"answer is ", "The Answer Is (", "Answer: ", "answer:",
               "Answer: D ", "A", "b", "C", "K", "1", " ", ")"}

InitExtract ==
    /\ IdleRun
    /\ call \in {Pending(text) : text \in Concats(TextPieces, MaxTokens)}

CallExtractAnswer ==
    /\ pc = "call"
    /\ ~ call.returned
    /\ call' = Returned("extract_answer", extract_answer(call.arg))
    /\ UNCHANGED <<pc, input_vars, local_vars>>

CallExtractAnswerCot ==
    /\ pc = "call"
    /\ ~ call.returned
    /\ call' = Returned("extract_answer_cot", extract_answer_cot(call.arg))
    /\ UNCHANGED <<pc, input_vars, local_vars>>

NextExtract == CallExtractAnswer \/ CallExtractAnswerCot

SpecExtract == InitExtract /\ [][NextExtract]_vars

CategoryWords == {"math", "Math", "PHYSICS", "economics", "law", "health",
                  "other", "Other", "computer", " science", "general ",
                  "history", "zoology", " "}

InitDomain ==
    /\ IdleRun
    /\ call \in {Pending(cat) : cat \in Concats(CategoryWords, MaxWords)}

CallGetDomain ==
    /\ pc = "call"
    /\ ~ call.returned
    /\ call' = Returned("get_domain", get_domain(call.arg))
    /\ UNCHANGED <<pc, input_vars, local_vars>>

NextDomain == CallGetDomain

SpecDomain == InitDomain /\ [][NextDomain]_vars

\* Raw records: placeholders before, after and around the correct option,
\* with and without question_id, cot_content and src.
RawPool == {
    [question_id |-> 7, question |-> "q", options |-> <<"a", "b", "c">>,
     answer |-> "B", answer_index |-> 1, category |-> "math",
     cot_content |-> "because", src |-> "s"],
    [question |-> "q", options |-> <<"a", "b", "N/A">>,
     answer |-> "B", answer_index |-> 1, category |-> "math"],
    [question_id |-> 0, question |-> "q", options |-> <<"N/A", "a", "b">>,
     answer |-> "C", answer_index |-> 2, category |-> "law"],
    [question |-> "q", options |-> <<"a", "N/A", "b", "N/A", "c">>,
     answer |-> "E", answer_index |-> 4, category |-> "law", src |-> "s"],
    [question_id |-> 9, question |-> "q", options |-> <<"a", "N/A">>,
     answer |-> "A", answer_index |-> 0, category |-> "health"],
    [question |-> "q", options |-> <<"N/A", "N/A", "a">>,
     answer |-> "C", answer_index |-> 2, category |-> "health",
     cot_content |-> ""],
    [question_id |-> 3, question |-> "q", options |-> <<"a", "b">>,
     answer |-> "A", answer_index |-> 0, category |-> "other"],
    [question |-> "q", options |-> <<"a", "N/A", "b">>,
     answer |-> "A", answer_index |-> 0, category |-> "other"],
    [question |-> "r", options |-> <<"a", "N/A", "b", "c">>,
     answer |-> "C", answer_index |-> 2, category |-> "other"],
    [question_id |-> 5, question |-> "r", options |-> <<"N/A", "a">>,
     answer |-> "B", answer_index |-> 1, category |-> "math"] }

Datasets == UNION { [1..m -> RawPool] : m \in 0..MaxRecords }

InitPreprocess ==
    /\ IdleRun
    /\ call \in {Pending(dataset) : dataset \in Datasets}

CallPreprocessDataset ==
    /\ pc = "call"
    /\ ~ call.returned
    /\ call' = Returned("preprocess_dataset", preprocess_dataset(call.arg))
    /\ UNCHANGED <<pc, input_vars, local_vars>>

NextPreprocess == CallPreprocessDataset

SpecPreprocess == InitPreprocess /\ [][NextPreprocess]_vars

\* Validation items: with a rationale that starts with the marker, with a
\* rationale without it, with an empty rationale, and of another category.
ExemplarPool == {
    [question_id |-> 1, question |-> "vq1", options |-> <<"1", "2">>,
     answer |-> "B", answer_index |-> 1, category |-> "math",
     cot_content |-> "A: Let's think step by step. The answer is (B).",
     src |-> "v"],
    [question_id |-> 2, question |-> "vq2", options |-> <<"7", "8", "9">>,
     answer |-> "C", answer_index |-> 2, category |-> "math",
     cot_content |-> "So (C).", src |-> "v"],
    [question_id |-> 3, question |-> "vq3", options |-> <<"0", "1">>,
     answer |-> "A", answer_index |-> 0, category |-> "math",
     cot_content |-> "", src |-> ""],
    [question_id |-> 4, question |-> "vq4", options |-> <<"p", "q">>,
     answer |-> "A", answer_index |-> 0, category |-> "law",
     cot_content |-> "", src |-> "v"] }

TargetPool == {
    [question_id |-> 70, question |-> "tq1", options |-> <<"3", "4">>,
     answer |-> "A", answer_index |-> 0, category |-> "math",
     cot_content |-> "", src |-> ""],
    [question_id |-> 72, question |-> "tq3", options |-> <<"x", "y">>,
     answer |-> "B", answer_index |-> 1, category |-> "law",
     cot_content |-> "", src |-> ""] }

\* Calls that build the prompt of curr from the first k validation items
\* of its category
PromptCalls ==
    { [val_data |-> v, curr |-> c, k |-> k, use_cot |-> b] :
          v \in UNION { [1..m -> ExemplarPool] : m \in 0..MaxRecords },
          c \in TargetPool, k \in 0..MaxFewShot, b \in BOOLEAN }

InitFormat ==
    /\ IdleRun
    /\ call \in {Pending(arg) : arg \in PromptCalls}

\* format_prompt as evaluate_mmlu_pro calls it (lines 241-249)
CallFormatPrompt ==
    /\ pc = "call"
    /\ ~ call.returned
    /\ LET arg == call.arg
           few_shot ==
               Prefix(select_by_category(arg.val_data, arg.curr.category),
                      arg.k)
       IN  call' = Returned("format_prompt",
                       format_prompt(arg.curr.question, arg.curr.options,
                           arg.curr.category,
                           IF arg.k > 0 THEN few_shot ELSE NoExamples,
                           arg.use_cot))
    /\ UNCHANGED <<pc, input_vars, local_vars>>

\* generate_cot_prompt as main of mmlu_pro_cot.py calls it (line 114)
CallGenerateCotPrompt ==
    /\ pc = "call"
    /\ ~ call.returned
    /\ call' = Returned("generate_cot_prompt",
                    generate_cot_prompt(call.arg.val_data, call.arg.curr,
                                        call.arg.k))
    /\ UNCHANGED <<pc, input_vars, local_vars>>

NextFormat == CallFormatPrompt \/ CallGenerateCotPrompt

SpecFormat == InitFormat /\ [][NextFormat]_vars

(***************************************************************************)
(* Properties of extract_answer (SpecExtract).  The tiers are stated here  *)
(* on the text itself, as sets of positions.                               *)
(***************************************************************************)
SmallestOf(positions) == CHOOSE p \in positions : \A q \in positions : p <= q
LargestOf(positions) == CHOOSE p \in positions : \A q \in positions : q <= p

\* The letter that follows "answer is " (any case) at p, directly or after
\* one opening parenthesis; "" when there is none.
AnswerIsLetter(text, p) ==
    IF p + 9 > Len(text) \/ lower(SubSeq(text, p, p + 9)) # "answer is "
    THEN ""
    ELSE IF UpperChar(CharAt(text, p + 10)) \in Range(CHOICES)
         THEN CharAt(text, p + 10)
    ELSE IF /\ CharAt(text, p + 10) = "("
            /\ UpperChar(CharAt(text, p + 11)) \in Range(CHOICES)
         THEN CharAt(text, p + 11)
    ELSE ""

\* The capital letter that follows "answer:" or "Answer:" at p after any
\* amount of whitespace; "" when there is none.
AnswerColonLetter(text, p) ==
    IF p + 6 > Len(text)
       \/ SubSeq(text, p, p + 6) \notin {"answer:", "Answer:"}
    THEN ""
    ELSE LET after == {q \in (p + 7)..Len(text) :
                          /\ CharAt(text, q) \in Range(CHOICES)
                          /\ \A r \in (p + 7)..(q - 1) :
                                 IsSpace(CharAt(text, r))}
         IN  IF after = {} THEN "" ELSE CharAt(text, SmallestOf(after))

Tier1Positions(text) == {p \in 1..Len(text) : AnswerIsLetter(text, p) # ""}
Tier2Positions(text) ==
    {p \in 1..Len(text) : AnswerColonLetter(text, p) # ""}

\* Positions of the standalone letters: a capital A-J with no word
\* character (letter, digit, underscore) on either side.
StandalonePositions(text) ==
    {p \in 1..Len(text) :
        /\ CharAt(text, p) \in Range(CHOICES)
        /\ ~ IsWordChar(CharAt(text, p - 1))
        /\ ~ IsWordChar(CharAt(text, p + 1))}

ExtractReturned ==
    call.returned /\ call.fn \in {"extract_answer", "extract_answer_cot"}

\* C5: the tiers of extract_answer decide in order.  When "answer is" plus
\* optional parenthesis plus allowed letter occurs, the result is that
\* letter (of the leftmost occurrence), uppercased, whatever else the text
\* holds; "Answer: X" decides only when the first tier has no match; a
\* standalone letter (or no answer) only when neither has.
C5_TiersInOrder ==
    ExtractReturned =>
        LET text == call.arg
            t1 == Tier1Positions(text)
            t2 == Tier2Positions(text)
        IN  /\ t1 # {} =>
                  call.ret = upper(AnswerIsLetter(text, SmallestOf(t1)))
            /\ (t1 = {} /\ t2 # {}) =>
                  call.ret = AnswerColonLetter(text, SmallestOf(t2))
            /\ (t1 = {} /\ t2 = {}) =>
                  call.ret \in {CharAt(text, p) :
                                   p \in StandalonePositions(text)}
                               \cup {None}

\* Witness of C5: a text where "Answer: X" comes first and "answer is y"
\* later with another letter, and the result is the "answer is" letter.
C5_Witness ==
    /\ ExtractReturned
    /\ call.fn = "extract_answer"
    /\ LET text == call.arg
           t1 == Tier1Positions(text)
           t2 == Tier2Positions(text)
       IN  /\ t1 # {} /\ t2 # {}
           /\ SmallestOf(t2) < SmallestOf(t1)
           /\ StandalonePositions(text) # {}
           /\ AnswerColonLetter(text, SmallestOf(t2))
                  # upper(AnswerIsLetter(text, SmallestOf(t1)))
           /\ call.ret = upper(AnswerIsLetter(text, SmallestOf(t1)))

\* C6: when neither "answer is X" nor "Answer: X" occurs and the text has a
\* standalone letter A-J, extract_answer returns the rightmost one.
C6_LastStandaloneLetter ==
    (call.returned /\ call.fn = "extract_answer") =>
        LET text == call.arg
            letters == StandalonePositions(text)
        IN  (Tier1Positions(text) = {} /\ Tier2Positions(text) = {}
             /\ letters # {})
            => call.ret = CharAt(text, LargestOf(letters))

\* Witness of C6: two different standalone letters, the last one returned.
C6_Witness ==
    /\ call.returned
    /\ call.fn = "extract_answer"
    /\ LET text == call.arg
           letters == StandalonePositions(text)
       IN  /\ Tier1Positions(text) = {} /\ Tier2Positions(text) = {}
           /\ Cardinality(letters) >= 2
           /\ CharAt(text, SmallestOf(letters))
                  # CharAt(text, LargestOf(letters))
           /\ call.ret = CharAt(text, LargestOf(letters))

(***************************************************************************)
(* Property of get_domain (SpecDomain).                                    *)
(***************************************************************************)
\* Rules whose pattern occurs in the lower-cased category
MatchingRules(category) ==
    {i \in 1..Len(DOMAIN_MAPPING) :
        \E p \in 1..Len(category) :
            p + Len(DOMAIN_MAPPING[i][1]) - 1 <= Len(category)
            /\ lower(SubSeq(category, p, p + Len(DOMAIN_MAPPING[i][1]) - 1))
                   = DOMAIN_MAPPING[i][1]}

\* C8: get_domain returns the domain of the earliest declared rule whose
\* pattern is a substring of the lower-cased category, "Other" when no
\* rule matches.
C8_FirstRuleWins ==
    (call.returned /\ call.fn = "get_domain") =>
        LET rules == MatchingRules(call.arg)
        IN  call.ret = IF rules = {} THEN "Other"
                       ELSE DOMAIN_MAPPING[SmallestOf(rules)][2]

\* Witness of C8: a category with capitals that matches two rules of
\* different domains, resolved by the earlier one.
C8_Witness ==
    /\ call.returned
    /\ call.fn = "get_domain"
    /\ call.arg # lower(call.arg)
    /\ LET rules == MatchingRules(call.arg)
       IN  /\ \E i, j \in rules : DOMAIN_MAPPING[i][2] # DOMAIN_MAPPING[j][2]
           /\ call.ret = DOMAIN_MAPPING[SmallestOf(rules)][2]

(***************************************************************************)
(* Property of preprocess_dataset (SpecPreprocess).                        *)
(***************************************************************************)
\* C9: for a raw record whose answer_index points at a real option, the
\* preprocessed item has no "N/A" option and an answer_index inside its
\* options that designates the same option as in the raw record.
C9_AnswerIndexResolves ==
    (call.returned /\ call.fn = "preprocess_dataset") =>
        \A i \in 1..Len(call.arg) :
            LET raw == call.arg[i]
                item == call.ret[i]
            IN  raw.options[raw.answer_index + 1] # "N/A" =>
                    /\ \A j \in 1..Len(item.options) :
                           item.options[j] # "N/A"
                    /\ 0 <= item.answer_index
                    /\ item.answer_index < Len(item.options)
                    /\ item.options[item.answer_index + 1]
                           = raw.options[raw.answer_index + 1]

(***************************************************************************)
(* Properties of prompt building (SpecBudget).  The exemplars of a prompt  *)
(* are read off its text: every block starts with "Question:\n" and the    *)
(* question; the last block is the target.                                 *)
(***************************************************************************)
\* Validation items of a category, in dataset order
SameCategory(cat) ==
    LET HasCategory(v) == v.category = cat
    IN  SelectSeq(val_data, HasCategory)

\* min(k, m) for the i-th test item
TopCount(i) ==
    Min(num_few_shot, Len(SameCategory(test_data[i].category)))

\* Counts from 0 to min(k, m) whose prompt is within the budget.  A prompt
\* with n exemplars has tokenizer[n] tokens.
FittingCounts(i) ==
    {n \in 0..TopCount(i) : tokenizer[n] <= max_model_len - 2048}

\* The count the budget settles on: the first that fits going down from
\* min(k, m), 0 when none fits.
SettledCount(i) ==
    IF FittingCounts(i) = {} THEN 0 ELSE LargestOf(FittingCounts(i))

\* The prompt of the i-th test item assembled with its first n exemplars
PromptOfCount(i, n) ==
    format_prompt(test_data[i].question, test_data[i].options,
                  test_data[i].category,
                  SubSeq(SameCategory(test_data[i].category), 1, n), use_cot)

\* header, target question, options, open cue
ZeroExemplarPrompt(item) ==
    "The following are multiple choice questions (with answers) about "
    \o item.category
    \o ". Think step by step and then finish your answer with "
    \o "\"the answer is (X)\" where X is the correct letter choice.\n\n"
    \o "Question:\n" \o item.question \o "\nOptions:\n"
    \o OptionLines(item.options, 1)
    \o "Answer: Let's think step by step."

HeadingPositions(prompt) ==
    {p \in 1..(Len(prompt) - 9) : SubSeq(prompt, p, p + 9) = "Question:\n"}

NthSmallest(positions, j) ==
    CHOOSE p \in positions : Cardinality({q \in positions : q < p}) = j - 1

KnownQuestions ==
    {val_data[i].question : i \in 1..Len(val_data)}
    \cup {test_data[i].question : i \in 1..Len(test_data)}

\* The question that starts at the block heading at p, "" if unknown
QuestionAtHeading(prompt, p) ==
    LET here == {q \in KnownQuestions : StartsAt(prompt, p + 10, q \o "\n")}
    IN  IF here = {} THEN "" ELSE CHOOSE q \in here : TRUE

\* Questions of the exemplar blocks of a prompt, in order of appearance
ExemplarQuestions(prompt) ==
    LET heads == HeadingPositions(prompt)
    IN  [j \in 1..(Cardinality(heads) - 1) |->
            QuestionAtHeading(prompt, NthSmallest(heads, j))]

\* Questions of the first n validation items of the i-th item's category
FirstQuestions(i, n) ==
    [j \in 1..n |-> SameCategory(test_data[i].category)[j].question]

\* C1: the submitted prompt of every test item is the one assembled with n
\* exemplars, n the first count that fits going down from min(k, m) to 0;
\* so when some count fits, the submitted prompt is within the budget.
C1_FirstFittingCount ==
    \A i \in 1..Len(prompts) :
        FittingCounts(i) # {} =>
            /\ prompts[i] = PromptOfCount(i, LargestOf(FittingCounts(i)))
            /\ TokenCount(tokenizer, prompts[i]) <= max_model_len - 2048

\* Witness of C1: the prompt with min(k, m) >= 2 exemplars is over the
\* budget and a smaller count, not 0, is the one submitted.
C1_Witness ==
    \E i \in 1..Len(prompts) :
        /\ TopCount(i) >= 2
        /\ TopCount(i) \notin FittingCounts(i)
        /\ SettledCount(i) >= 1
        /\ prompts[i] = PromptOfCount(i, SettledCount(i))
        /\ Len(ExemplarQuestions(prompts[i])) = SettledCount(i)

\* C2: when no count from min(k, m) down to 0 fits (the prompt is over the
\* budget even with zero exemplars), nothing is raised, the item keeps its
\* place in the prompt list and its prompt is the zero-exemplar prompt.
C2_ZeroExemplarFallback ==
    /\ pc # "raised"
    /\ pc \in {"score", "done"} => Len(prompts) = Len(test_data)
    /\ \A i \in 1..Len(prompts) :
           FittingCounts(i) = {} =>
               prompts[i] = ZeroExemplarPrompt(test_data[i])

\* Witness of C2: a finished run with an item that has exemplars available,
\* none of whose prompts fits, submitted with the zero-exemplar prompt.
C2_Witness ==
    /\ pc = "done"
    /\ \E i \in 1..Len(prompts) :
           /\ TopCount(i) >= 1
           /\ FittingCounts(i) = {}
           /\ prompts[i] = ZeroExemplarPrompt(test_data[i])
           /\ sample_rows[i].question_id = test_data[i].question_id

EndsWith(s, suffix) ==
    Len(suffix) <= Len(s)
    /\ SubSeq(s, Len(s) - Len(suffix) + 1, Len(s)) = suffix

\* The last block of a prompt for item: the question, its lettered
\* options and the open cue
TargetBlock(item) ==
    "Question:\n" \o item.question \o "\nOptions:\n"
    \o OptionLines(item.options, 1) \o "Answer: Let's think step by step."

\* The text the backend produced for the i-th prompt ("" without outputs)
OutputText(i) ==
    IF Len(llm[i].outputs) = 0 THEN "" ELSE llm[i].outputs[1].text

GoldLetter(i) == CHOICES[test_data[i].answer_index + 1]

\* C3: the prompt list has one prompt per test item in test-item order, and
\* with one output per prompt in that order the sample rows are one per
\* test item: row i has idx i (from 0) and the category, gold letter and
\* prediction of test item i and output i.
C3_OnePerItemInOrder ==
    /\ Len(prompts) <= Len(test_data)
    /\ pc \in {"score", "done"} => Len(prompts) = Len(test_data)
    /\ \A i \in 1..Len(prompts) :
           EndsWith(prompts[i], TargetBlock(test_data[i]))
    /\ pc = "done" => Len(sample_rows) = Len(test_data)
    /\ \A i \in 1..Len(sample_rows) :
           /\ sample_rows[i].idx = i - 1
           /\ sample_rows[i].category = test_data[i].category
           /\ sample_rows[i].answer = GoldLetter(i)
           /\ sample_rows[i].pred = extract_answer(OutputText(i))
           /\ sample_rows[i].model_output = OutputText(i)

\* Witness of C3: a finished run over three items of different categories
\* whose outputs give three different predictions.
C3_Witness ==
    /\ pc = "done"
    /\ Len(test_data) >= 3
    /\ Len(sample_rows) = Len(test_data)
    /\ Len(prompts) = Len(test_data)
    /\ \A i, j \in 1..3 :
           i # j => /\ sample_rows[i].pred # sample_rows[j].pred
                    /\ sample_rows[i].category # sample_rows[j].category

NoTierMatches(text) ==
    /\ Tier1Positions(text) = {}
    /\ Tier2Positions(text) = {}
    /\ StandalonePositions(text) = {}

RowsOfCategory(cat) ==
    {i \in 1..Len(sample_rows) : sample_rows[i].category = cat}
RowsOfDomain(dom) ==
    {i \in 1..Len(sample_rows) : get_domain(sample_rows[i].category) = dom}
\* Rows whose prediction is the gold letter
CorrectRows ==
    {i \in 1..Len(sample_rows) : sample_rows[i].pred = sample_rows[i].answer}

AllCategories == {test_data[i].category : i \in 1..Len(test_data)}
AllDomains == {DOMAIN_MAPPING[i][2] : i \in 1..Len(DOMAIN_MAPPING)}

\* C7: nothing is raised for any output, the empty text and a result with
\* no outputs included; a text no tier matches gives None; a row whose
\* prediction is None is incorrect: it counts in the totals of its category
\* and domain and not in their correct counts.
C7_UnknownIsIncorrect ==
    /\ pc # "raised"
    /\ \A i \in 1..Len(sample_rows) :
           /\ NoTierMatches(OutputText(i)) => sample_rows[i].pred = None
           /\ sample_rows[i].pred = None =>
                  /\ sample_rows[i].correct = 0
                  /\ i \notin CorrectRows
                  /\ sample_rows[i].answer \in {CHOICES[c] : c \in 1..Len(CHOICES)}
    /\ \A cat \in AllCategories :
           /\ CounterGet(by_category_total, cat)
                  = Cardinality(RowsOfCategory(cat))
           /\ CounterGet(by_category_correct, cat)
                  = Cardinality(RowsOfCategory(cat) \cap CorrectRows)
    /\ \A dom \in AllDomains :
           /\ CounterGet(by_domain_total, dom)
                  = Cardinality(RowsOfDomain(dom))
           /\ CounterGet(by_domain_correct, dom)
                  = Cardinality(RowsOfDomain(dom) \cap CorrectRows)

\* Witness of C7: scored rows with no outputs, with the empty text and
\* with a text without an answer, all None and incorrect, in a category
\* that has a total and no correct answer.
C7_Witness ==
    /\ pc = "done"
    /\ \E i, j, k \in 1..Len(sample_rows) :
           /\ Len(llm[i].outputs) = 0
           /\ Len(llm[j].outputs) = 1 /\ OutputText(j) = ""
           /\ OutputText(k) # ""
           /\ \A r \in {i, j, k} :
                  sample_rows[r].pred = None /\ sample_rows[r].correct = 0
           /\ CounterGet(by_category_total, sample_rows[i].category) >= 1
           /\ CounterGet(by_category_correct, sample_rows[i].category) = 0

\* a / b = c / d for fractions <<a, b>> and <<c, d>>
SameRatio(x, y) == x[1] * y[2] = y[1] * x[2]

CategoriesOfDomain(dom) == {cat \in AllCategories : get_domain(cat) = dom}

\* C10: in the returned result, overall accuracy is total_correct over
\* max(1, total_count), each category's and domain's accuracy is its
\* correct over max(1, total); total_count is the number of scored items
\* and the sum of the category totals and of the domain totals;
\* total_correct is the sum of the category and of the domain correct
\* counts; a domain's counts are the sums over its categories.
C10_AccuraciesAndSums ==
    pc = "done" =>
        LET overall == result.overall
            scored == Len(sample_rows)
            right == Cardinality(CorrectRows)
        IN  /\ scored = Len(test_data)
            /\ overall.total_questions = scored
            /\ overall.total_correct = right
            /\ SameRatio(overall.overall_accuracy, <<right, Max(1, scored)>>)
            /\ SumValues(by_category_total) = scored
            /\ SumValues(by_domain_total) = scored
            /\ SumValues(by_category_correct) = right
            /\ SumValues(by_domain_correct) = right
            /\ DOMAIN result.by_category = AllCategories
            /\ \A cat \in AllCategories :
                   SameRatio(result.by_category[cat],
                       <<Cardinality(RowsOfCategory(cat) \cap CorrectRows),
                         Max(1, Cardinality(RowsOfCategory(cat)))>>)
            /\ DOMAIN result.by_domain
                   = {get_domain(cat) : cat \in AllCategories}
            /\ \A dom \in DOMAIN result.by_domain :
                   /\ SameRatio(result.by_domain[dom],
                          <<CounterGet(by_domain_correct, dom),
                            Max(1, CounterGet(by_domain_total, dom))>>)
                   /\ CounterGet(by_domain_total, dom)
                          = SumOver([cat \in AllCategories |->
                                        CounterGet(by_category_total, cat)],
                                    CategoriesOfDomain(dom))
                   /\ CounterGet(by_domain_correct, dom)
                          = SumOver([cat \in AllCategories |->
                                        CounterGet(by_category_correct, cat)],
                                    CategoriesOfDomain(dom))

\* Witness of C10: math gold A, B predicted A, A and law gold C predicted
\* C give overall 2/3, math 1/2, law 1/1.
C10_Witness ==
    /\ pc = "done"
    /\ Len(sample_rows) = 3
    /\ [i \in 1..3 |-> sample_rows[i].category] = <<"math", "math", "law">>
    /\ [i \in 1..3 |-> sample_rows[i].answer] = <<"A", "B", "C">>
    /\ [i \in 1..3 |-> sample_rows[i].pred] = <<"A", "A", "C">>
    /\ result.overall.overall_accuracy = <<2, 3>>
    /\ result.by_category["math"] = <<1, 2>>
    /\ result.by_category["law"] = <<1, 1>>
    /\ result.by_domain = ("STEM" :> <<1, 2>>) @@ ("Humanities" :> <<1, 1>>)

(***************************************************************************)
(* Properties of main (SpecMain).                                          *)
(***************************************************************************)
\* The observed overall accuracy as a fraction: rows whose prediction is
\* the gold letter over max(1, rows)
ObservedAccuracy == <<Cardinality(CorrectRows), Max(1, Len(sample_rows))>>

BelowThreshold ==
    ObservedAccuracy[1] * acceptance_threshold[2]
        < acceptance_threshold[1] * ObservedAccuracy[2]

AtThreshold ==
    ObservedAccuracy[1] * acceptance_threshold[2]
        = acceptance_threshold[1] * ObservedAccuracy[2]

\* C11: a completed run exits with a non-zero code if and only if the
\* observed overall accuracy is below the acceptance threshold; accuracy
\* equal to the threshold passes: exit code zero and status PASS.
C11_ExitCodeIffBelowThreshold ==
    pc = "exited" =>
        /\ exit_code # NotExited
        /\ exit_code # 0 <=> BelowThreshold
        /\ status = "FAIL" <=> BelowThreshold
        /\ status = "PASS" <=> ~ BelowThreshold
        /\ AtThreshold => exit_code = 0 /\ status = "PASS"

\* Witness of C11: a completed run of two items, one of them right, with
\* threshold 1/2: exit code 0 and PASS.
C11_Witness ==
    /\ pc = "exited"
    /\ Len(sample_rows) = 2
    /\ Cardinality(CorrectRows) = 1
    /\ acceptance_threshold = <<1, 2>>
    /\ AtThreshold
    /\ exit_code = 0
    /\ status = "PASS"

(***************************************************************************)
(* Properties of the subject filter (SpecSelect).                          *)
(***************************************************************************)
\* category contains one of the substrings of the filter, whatever the case
InSelection(category) ==
    MatchesSelected(category, Selected(selected_subjects))

\* C12: with a subject filter other than "all", every question that is
\* prompted, scored and counted has a category that contains one of the
\* given substrings, and no other category appears in by_category.
C12_OnlySelectedEvaluated ==
    selected_subjects # "all" =>
        /\ \A i \in 1..Len(test_items) : InSelection(test_items[i].category)
        /\ \A i \in 1..Len(sample_rows) :
               InSelection(sample_rows[i].category)
        /\ \A cat \in DOMAIN by_category_total : InSelection(cat)
        /\ pc = "done" =>
               \A cat \in DOMAIN result.by_category : InSelection(cat)

(***************************************************************************)
(* Order of building, generation and aggregation (SpecBudget).             *)
(***************************************************************************)
counters == <<by_category_correct, by_category_total, by_domain_correct,
              by_domain_total>>

NothingScored ==
    /\ sample_rows = <<>>
    /\ by_category_correct = <<>>
    /\ by_category_total = <<>>
    /\ by_domain_correct = <<>>
    /\ by_domain_total = <<>>

\* In every state: generate has been called at most once; when it has, it
\* was called with the whole prompt list, one prompt per test item, each
\* measured at least once; before it nothing is extracted or counted.
CallOrder ==
    /\ Len(backend_calls) <= 1
    /\ backend_calls # <<>> =>
           /\ backend_calls[1] = prompts
           /\ Len(prompts) = Len(test_data)
           /\ tokenizer_calls >= Len(prompts)
    /\ backend_calls = <<>> => NothingScored /\ outputs = <<>>

\* In every step: a step that builds a prompt or measures one leaves the
\* backend uncalled; a step that appends a row or changes a counter comes
\* after the one call, whose outputs it leaves as returned.
StepOrder ==
    /\ (prompts' # prompts \/ tokenizer_calls' # tokenizer_calls) =>
           backend_calls' = <<>>
    /\ (sample_rows' # sample_rows \/ counters' # counters) =>
           /\ Len(backend_calls) = 1
           /\ backend_calls' = backend_calls
           /\ outputs' = outputs
           /\ Len(outputs) = Len(prompts)

\* C13: all prompts are built and all tokenizer measurements made before
\* the backend is called; generate is called exactly once, with the entire
\* prompt list; every extraction and counter increment comes after that
\* call has returned.
C13_BuildThenOneCallThenScore ==
    /\ [] CallOrder
    /\ [][StepOrder]_vars
    /\ [] (pc \in {"score", "done"} => Len(backend_calls) = 1)

\* Witness of C13: a finished run of at least two items in which some
\* prompt was measured more than once and the one call got every prompt.
C13_Witness ==
    /\ pc = "done"
    /\ Len(backend_calls) = 1
    /\ Len(backend_calls[1]) >= 2
    /\ Len(backend_calls[1]) = Len(test_data)
    /\ tokenizer_calls > Len(prompts)
    /\ Len(sample_rows) = Len(test_data)

(***************************************************************************)
(* Fatal failures (SpecMain).                                              *)
(***************************************************************************)
Failed == pc \in {"raised", "aborted"}

\* The failing call lies before the aggregation loop
FailedBeforeAggregation ==
    Failed /\ fault \in {"datasets", "vllm", "tokenizer", "generate"}

\* The positions of main that come after writing file name
StagesAfter(name) ==
    CASE name = "overall.json" ->
             {"write_by_category", "write_by_domain", "write_samples",
              "write_report", "summary", "exited"}
      [] name = "by_category.json" ->
             {"write_by_domain", "write_samples", "write_report", "summary",
              "exited"}
      [] name = "by_domain.json" ->
             {"write_samples", "write_report", "summary", "exited"}
      [] name = "samples.csv" -> {"write_report", "summary", "exited"}
      [] name = "report.md" -> {"summary", "exited"}
      [] OTHER -> {}

\* In every state of a run in which a call has raised: report.md has not
\* been written (no file at all unless it was its own write that broke
\* off), the status was never printed, and before aggregation no result
\* file exists and nothing was scored.
AbortedState ==
    Failed =>
        /\ fault # "none"
        /\ files["report.md"] # "complete"
        /\ fault # "report.md" => files["report.md"] = "absent"
        /\ status = None
        /\ pc = "aborted" => exit_code = 1
        /\ FailedBeforeAggregation =>
               /\ \A f \in Range(RESULT_FILES) : files[f] = "absent"
               /\ NothingScored
               /\ result = Unset
        /\ fault \in {"datasets", "vllm", "tokenizer"} =>
               prompts = <<>> /\ backend_calls = <<>>

\* In every step: once a call has raised nothing runs but the end of the
\* process with status 1, which leaves every file as it is.
AbortedStep ==
    Failed =>
        /\ pc' = "aborted"
        /\ exit_code' = 1
        /\ files' = files
        /\ UNCHANGED <<prompts, outputs, sample_rows, counters, result,
                       status, backend_calls>>

HasIdentifier(raw) == "question_id" \in DOMAIN raw

\* C15: preprocess_dataset returns one item per raw record in the same
\* order, keeps an explicit question_id, and gives a record without one
\* its position, from 0, in the output.
C15_IdentifierIsPosition ==
    (call.returned /\ call.fn = "preprocess_dataset") =>
        /\ Len(call.ret) = Len(call.arg)
        /\ \A i \in 1..Len(call.arg) :
               LET raw == call.arg[i]
                   item == call.ret[i]
               IN  /\ item.question = raw.question
                   /\ item.answer = raw.answer
                   /\ item.category = raw.category
                   /\ item.answer_index = raw.answer_index
                   /\ HasIdentifier(raw) =>
                          item.question_id = raw.question_id
                   /\ ~ HasIdentifier(raw) => item.question_id = i - 1

\* Witness of C15: records with and without an identifier, the second
\* without one and given 1, after a first with an explicit identifier that
\* is not its position.
C15_Witness ==
    /\ call.returned
    /\ call.fn = "preprocess_dataset"
    /\ Len(call.arg) >= 2
    /\ HasIdentifier(call.arg[1])
    /\ call.arg[1].question_id # 0
    /\ call.ret[1].question_id = call.arg[1].question_id
    /\ ~ HasIdentifier(call.arg[2])
    /\ call.ret[2].question_id = 1

(***************************************************************************)
(* Growth of the counters during aggregation (Spec).                       *)
(***************************************************************************)
\* 1 if the condition holds, else 0
Indicator(condition) == IF condition THEN 1 ELSE 0

CategoryKeys ==
    AllCategories \cup DOMAIN by_category_total
        \cup DOMAIN by_category_correct

DomainKeys ==
    AllDomains \cup {"Other"} \cup DOMAIN by_domain_total
        \cup DOMAIN by_domain_correct

\* In every state: 0 <= correct <= total for each category and domain.
CorrectWithinTotal ==
    /\ \A cat \in CategoryKeys :
           /\ 0 <= CounterGet(by_category_correct, cat)
           /\ CounterGet(by_category_correct, cat)
                  <= CounterGet(by_category_total, cat)
    /\ \A dom \in DomainKeys :
           /\ 0 <= CounterGet(by_domain_correct, dom)
           /\ CounterGet(by_domain_correct, dom)
                  <= CounterGet(by_domain_total, dom)

\* A step that changes a counter processes the next pair in test-item
\* order: it appends that pair's row, adds one to the totals of the item's
\* category and domain, adds one to their correct counts if and only if
\* the prediction is the gold letter, and leaves every other count alone.
CounterStep ==
    (counters' # counters \/ sample_rows' # sample_rows) =>
        LET i == Len(sample_rows) + 1
            category == test_data[i].category
            domain == get_domain(category)
            right == extract_answer(OutputText(i)) = GoldLetter(i)
        IN  /\ Len(sample_rows') = i
            /\ sample_rows'[i].idx = i - 1
            /\ sample_rows'[i].category = category
            /\ \A cat \in CategoryKeys \cup DOMAIN by_category_total'
                              \cup DOMAIN by_category_correct' :
                   /\ CounterGet(by_category_total', cat)
                          = CounterGet(by_category_total, cat)
                                + Indicator(cat = category)
                   /\ CounterGet(by_category_correct', cat)
                          = CounterGet(by_category_correct, cat)
                                + Indicator(cat = category /\ right)
            /\ \A dom \in DomainKeys \cup DOMAIN by_domain_total'
                              \cup DOMAIN by_domain_correct' :
                   /\ CounterGet(by_domain_total', dom)
                          = CounterGet(by_domain_total, dom)
                                + Indicator(dom = domain)
                   /\ CounterGet(by_domain_correct', dom)
                          = CounterGet(by_domain_correct, dom)
                                + Indicator(dom = domain /\ right)

\* C16: during aggregation the counters only grow: processing the i-th
\* pair, in test-item order, adds one to that item's category and domain
\* totals, one to the matching correct counters iff the prediction equals
\* the gold letter, and changes no other counter; 0 <= correct <= total
\* in every intermediate state.
C16_CountersOnlyGrow ==
    /\ [] CorrectWithinTotal
    /\ [][CounterStep]_vars

\* Witness of C16: an intermediate state of aggregation: two math rows
\* scored, one of them right, a further item still to come.
C16_Witness ==
    /\ pc = "score"
    /\ Len(sample_rows) = 2
    /\ Len(test_data) > 2
    /\ CounterGet(by_category_total, "math") = 2
    /\ CounterGet(by_category_correct, "math") = 1
    /\ CounterGet(by_domain_total, "STEM") = 2
    /\ CounterGet(by_domain_correct, "STEM") = 1
    /\ sample_rows[1].pred # None
    /\ sample_rows[2].pred # None

(***************************************************************************)
(* The parts of a prompt (SpecFormat).                                     *)
(***************************************************************************)
\* The exemplars placed in the prompt of a call
ExemplarsOf(arg) ==
    Prefix(SelectSeq(arg.val_data,
                     LAMBDA v : v.category = arg.curr.category), arg.k)

\* Question and lettered options of an item
QuestionPart(item) ==
    "Question:\n" \o item.question \o "\nOptions:\n"
    \o OptionLines(item.options, 1)

\* The one answer part an exemplar is followed by
AnswerPart(ex, with_rationale) ==
    IF with_rationale /\ ex.cot_content # ""
    THEN replace(ex.cot_content, "A: Let's think step by step.",
                 "Answer: Let's think step by step.") \o "\n\n"
    ELSE "Answer: The answer is (" \o CHOICES[ex.answer_index + 1]
         \o ").\n\n"

RECURSIVE AnsweredExemplars(_, _)
AnsweredExemplars(exemplars, with_rationale) ==
    IF exemplars = <<>> THEN ""
    ELSE QuestionPart(Head(exemplars))
         \o AnswerPart(Head(exemplars), with_rationale)
         \o AnsweredExemplars(Tail(exemplars), with_rationale)

\* C17: in a prompt every exemplar is its question and lettered options
\* followed by exactly one answer part: its rationale with the marker
\* rewritten when rationales are used and it has one, otherwise the direct
\* answer line naming CHOICES[answer_index]; the target question at the
\* end is followed only by the open cue.
C17_EveryExemplarAnswered ==
    (call.returned /\ call.fn \in {"format_prompt", "generate_cot_prompt"})
    =>  LET arg == call.arg
            with_rationale ==
                IF call.fn = "format_prompt" THEN arg.use_cot ELSE TRUE
        IN  call.ret = instruction(arg.curr.category)
                         \o AnsweredExemplars(ExemplarsOf(arg), with_rationale)
                         \o QuestionPart(arg.curr)
                         \o "Answer: Let's think step by step."

(***************************************************************************)
(* The row limit (SpecSelect).                                             *)
(***************************************************************************)
\* The first min(L, N) preprocessed test items, N the number of test items
FirstWithinLimit ==
    LET all_items == preprocess_dataset(ds.test)
        n == IF total_limit[1] < Len(all_items) THEN total_limit[1]
             ELSE Len(all_items)
    IN  [i \in 1..n |-> all_items[i]]

\* C18: with a row limit L >= 0, exactly the first min(L, N) preprocessed
\* test items are prompted and scored, and total_questions is min(L, N).
C18_FirstMinLN ==
    (total_limit # NoLimit /\ total_limit[1] >= 0) =>
        /\ pc \in {"score", "done"} =>
               /\ test_items = FirstWithinLimit
               /\ Len(prompts) = Len(FirstWithinLimit)
        /\ pc = "done" =>
               /\ Len(sample_rows) = Len(FirstWithinLimit)
               /\ \A i \in 1..Len(sample_rows) :
                      sample_rows[i].question_id
                          = FirstWithinLimit[i].question_id
               /\ result.overall.total_questions = Len(FirstWithinLimit)

====
